---- MODULE Spec2Model ----
(***************************************************************************)
(* Model of the Hong Kong Observatory integration (custom_components/      *)
(* hk_observatory): the data-update coordinator, its four fetch adapters,  *)
(* the config-entry setup and the derivation helpers.                      *)
(*                                                                         *)
(* Python values are modelled as follows.  A dict is a function whose      *)
(* DOMAIN is its key set, a list is a sequence, a str that the code parses *)
(* is a sequence of one-character strings, None is the record None, and    *)
(* the outcome of a call is Return(v) or Raise(<exception class>).         *)
(***************************************************************************)
EXTENDS Integers, Sequences, FiniteSets, TLC

VARIABLES
    setup,                \* position of async_setup_entry for the config entry
    hass_data,            \* hass.data[DOMAIN]: the entry ids holding a coordinator
    entities,             \* consumer entities created by the platforms (= listeners)
    data,                 \* coordinator.data: the published snapshot, or None
    last_update_success,  \* coordinator.last_update_success
    timer,                \* the coordinator's one-shot refresh timer is armed
    inflight,             \* the refresh batches (_async_update_data calls) in flight
    clock,                \* number of batches started so far = upstream time
    outcome,              \* how the last finished _async_update_data call ended
    sensors,              \* the sensor entities by description key: their fields
    fn, fn_in, fn_out     \* a helper applied on its own: which, its input, its result

vars == <<setup, hass_data, entities, data, last_update_success, timer,
          inflight, clock, outcome, sensors, fn, fn_in, fn_out>>

coordinator_vars == <<setup, hass_data, entities, data, last_update_success,
                      timer, inflight, clock, outcome, sensors>>

helper_vars == <<fn, fn_in, fn_out>>

(***************************************************************************)
(* Bounds of the model.                                                    *)
(***************************************************************************)
MaxCycles == 3

MaxChance == 5

MaxSubtype == 4

MaxRows == 3

MaxCode == 1000

(***************************************************************************)
(* Python values.                                                          *)
(***************************************************************************)
None == [tag |-> "None"]

Return(v) == [tag |-> "return", val |-> v]

Raise(e) == [tag |-> "raise", exc |-> e]

PyInt(n) == [tag |-> "int", v |-> n]

\* the float n/2, kept exact as its double
PyHalf(n) == [tag |-> "float", twice |-> n]

PyStr(s) == [tag |-> "str", s |-> s]

EmptyDict == <<>>

ENTRY_ID == "entry"

climate_station_id == "HKO"

Last(S) == CHOOSE i \in S : \A j \in S : j <= i

(***************************************************************************)
(* const.py: the snapshot's keys.                                          *)
(***************************************************************************)
ATTR_AWS_LAST_UPDATED == "_aws_last_updated"

ATTR_FORECAST_LAST_UPDATED == "_forecast_last_updated"

ATTR_AWS == "_aws"

ATTR_FORECAST == "_forecast"

ATTR_DAILY_FORECAST == "_daily_forecast"

ATTR_OTHER == "_other"

ATTR_WARNINGS == "_warn"

(***************************************************************************)
(* The transport.  session.get either raises ClientConnectorError          *)
(* (net = "connect_error"), does not answer before the enclosing budget    *)
(* expires (net = "timeout"), or yields a response with a status and a     *)
(* body.  The shared session does not raise on a status: the body of a     *)
(* non-2xx response is read like any other.                                *)
(*   station feed body : [has_newline, firstline |-> [ok, time], rows]     *)
(*   JSON feeds' body  : [json |-> is the body JSON, doc |-> the document] *)
(***************************************************************************)
Response(status, body) == [net |-> "ok", status |-> status, body |-> body]

NoResponse(net) == [net |-> net, status |-> 0, body |-> None]

Json(doc) == [json |-> TRUE, doc |-> doc]

NotJson == [json |-> FALSE, doc |-> None]

(***************************************************************************)
(* hko_data.py: the four fetch adapters, as functions of the response.     *)
(***************************************************************************)
\* _async_get_station_data taking the table's last row whatever its STN
_async_get_station_data_any_station(resp) ==
    IF resp.net = "connect_error" THEN Raise("ClientConnectorError")
    ELSE LET text == resp.body
             rows == text.rows
         IN  IF ~text.has_newline THEN Raise("ValueError")
             ELSE IF \E i \in DOMAIN rows : "STN" \notin DOMAIN rows[i]
                  THEN Raise("KeyError")
             ELSE IF rows = <<>> THEN Raise("KeyError")
             ELSE IF ~text.firstline.ok THEN Raise("ValueError")
             ELSE Return(rows[Len(rows)]
                         @@ (ATTR_AWS_LAST_UPDATED :> text.firstline.time))

\* rawdata.split, csv.DictReader, dict by STN (last row wins), the row of the
\* configured station, then the header line's time added to that row
_async_get_station_data(resp) ==
    IF resp.net = "connect_error" THEN Raise("ClientConnectorError")
    ELSE LET text == resp.body
             rows == text.rows
             hits == {i \in DOMAIN rows : rows[i]["STN"] = climate_station_id}
         IN  IF ~text.has_newline THEN Raise("ValueError")
             ELSE IF \E i \in DOMAIN rows : "STN" \notin DOMAIN rows[i]
                  THEN Raise("KeyError")
             ELSE IF hits = {} THEN Raise("KeyError")
             ELSE IF ~text.firstline.ok THEN Raise("ValueError")
             ELSE Return(rows[Last(hits)]
                         @@ (ATTR_AWS_LAST_UPDATED :> text.firstline.time))

\* resp.json(content_type=None), then the three keys and LastModified's time
_async_get_forecast_data(resp) ==
    IF resp.net = "connect_error" THEN Raise("ClientConnectorError")
    ELSE IF ~resp.body.json THEN Raise("JSONDecodeError")
    ELSE LET rawdata == resp.body.doc
         IN  IF "HourlyWeatherForecast" \notin DOMAIN rawdata THEN Raise("KeyError")
             ELSE IF "DailyForecast" \notin DOMAIN rawdata THEN Raise("KeyError")
             ELSE IF "LastModified" \notin DOMAIN rawdata THEN Raise("KeyError")
             ELSE IF ~rawdata["LastModified"].ok THEN Raise("ValueError")
             ELSE Return([hourly |-> rawdata["HourlyWeatherForecast"],
                          daily |-> rawdata["DailyForecast"],
                          last_modified |-> rawdata["LastModified"].time])

\* resp.json(): the document as it is
_async_get_other_data(resp) ==
    IF resp.net = "connect_error" THEN Raise("ClientConnectorError")
    ELSE IF ~resp.body.json THEN Raise("ContentTypeError")
    ELSE Return(resp.body.doc)

\* _async_get_warnings without its try/except: a missing key propagates
_async_get_warnings_no_except(resp) ==
    IF resp.net = "connect_error" THEN Raise("ClientConnectorError")
    ELSE IF ~resp.body.json THEN Raise("ContentTypeError")
    ELSE LET rawdata == resp.body.doc
         IN  IF "details" \notin DOMAIN rawdata THEN Raise("KeyError")
             ELSE LET details == rawdata["details"]
                  IN  IF \E i \in DOMAIN details :
                            "warningStatementCode" \notin DOMAIN details[i]
                      THEN Raise("KeyError")
                      ELSE Return([c \in {details[i]["warningStatementCode"] :
                                           i \in DOMAIN details} |->
                             details[Last({i \in DOMAIN details :
                               details[i]["warningStatementCode"] = c})]])

\* resp.json(), then details keyed by warningStatementCode (last entry wins);
\* a KeyError on the way gives the empty dict
_async_get_warnings(resp) ==
    IF resp.net = "connect_error" THEN Raise("ClientConnectorError")
    ELSE IF ~resp.body.json THEN Raise("ContentTypeError")
    ELSE LET rawdata == resp.body.doc
         IN  IF "details" \notin DOMAIN rawdata THEN Return(EmptyDict)
             ELSE LET details == rawdata["details"]
                      codes == {details[i]["warningStatementCode"] :
                                  i \in {j \in DOMAIN details :
                                    "warningStatementCode" \in DOMAIN details[j]}}
                  IN  IF \E i \in DOMAIN details :
                            "warningStatementCode" \notin DOMAIN details[i]
                      THEN Return(EmptyDict)
                      ELSE Return([c \in codes |->
                             details[Last({i \in DOMAIN details :
                               details[i]["warningStatementCode"] = c})]])

(***************************************************************************)
(* hko_data.py, _async_update_data: the budget around the four awaits, the *)
(* except clause and the returned dict.                                    *)
(***************************************************************************)
\* async with timeout(10): an await still pending at the deadline raises
async_with_timeout(resp, result) ==
    IF resp.net = "timeout" THEN Raise("TimeoutError") ELSE result

\* except ClientConnectorError as error: raise UpdateFailed(error) from error
_async_update_data_except(exc) ==
    IF exc = "ClientConnectorError" THEN "UpdateFailed" ELSE exc

\* _async_update_data updating the previous dict in place of building a new
\* one, and leaving the forecast keys as they were
_async_update_data_return_in_place(aws, forecast, other, warnings) ==
    IF data = None
    THEN (ATTR_AWS :> aws) @@
         (ATTR_FORECAST :> forecast.hourly) @@
         (ATTR_DAILY_FORECAST :> forecast.daily) @@
         (ATTR_FORECAST_LAST_UPDATED :> forecast.last_modified) @@
         (ATTR_OTHER :> other) @@
         (ATTR_WARNINGS :> warnings)
    ELSE [data EXCEPT ![ATTR_AWS] = aws, ![ATTR_OTHER] = other,
                      ![ATTR_WARNINGS] = warnings]

_async_update_data_return(aws, forecast, other, warnings) ==
    (ATTR_AWS :> aws) @@
    (ATTR_FORECAST :> forecast.hourly) @@
    (ATTR_DAILY_FORECAST :> forecast.daily) @@
    (ATTR_FORECAST_LAST_UPDATED :> forecast.last_modified) @@
    (ATTR_OTHER :> other) @@
    (ATTR_WARNINGS :> warnings)

(***************************************************************************)
(* What the upstream can answer at time t (the feeds carry their own       *)
(* times, so the answers of different cycles differ).                      *)
(***************************************************************************)
\* the text of a cell of the table
Temp253 == <<"2", "5", ".", "3">>

Temp241 == <<"2", "4", ".", "1">>

NotAvailable == <<"N", "/", "A">>

Row(stn, temp) == [STN |-> stn, TEMP |-> temp]

StationText(ok, t, rows) ==
    [has_newline |-> TRUE, firstline |-> [ok |-> ok, time |-> t], rows |-> rows]

ErrorPage == [has_newline |-> FALSE, firstline |-> [ok |-> FALSE, time |-> 0],
              rows |-> <<>>]

Failures == {NoResponse("connect_error"), NoResponse("timeout")}

StationResponses(t) ==
    Failures \cup
    { Response(200, StationText(TRUE, t, <<Row("KP", Temp241), Row("HKO", temp)>>)) :
        temp \in {Temp253, NotAvailable} } \cup
    { Response(200, StationText(TRUE, t, <<Row("KP", Temp241)>>)),
      Response(200, StationText(FALSE, t, <<Row("HKO", Temp253)>>)),
      Response(200, StationText(TRUE, t, <<[TEMP |-> Temp253]>>)),
      Response(404, ErrorPage),
      Response(500, StationText(TRUE, t, <<Row("HKO", Temp253)>>)) }

\* the text of a time: whether it is in the feed's format, and the time
TimeText(ok, t) == [ok |-> ok, time |-> t]

Hourly(t) ==
    <<[ForecastHour |-> TimeText(TRUE, t), ForecastWeather |-> PyInt(50)]>>

Daily(t) ==
    <<[ForecastDate |-> TimeText(TRUE, t), ForecastDailyWeather |-> PyInt(62)]>>

ForecastDoc(ok, t) ==
    [HourlyWeatherForecast |-> Hourly(t), DailyForecast |-> Daily(t),
     LastModified |-> [ok |-> ok, time |-> t]]

ForecastResponses(t) ==
    Failures \cup
    { Response(200, Json(ForecastDoc(TRUE, t))),
      Response(200, Json(ForecastDoc(FALSE, t))),
      Response(200, Json([HourlyWeatherForecast |-> Hourly(t)])),
      Response(503, NotJson),
      Response(500, Json(ForecastDoc(TRUE, t))) }

OtherResponses(t) ==
    Failures \cup
    { Response(200, Json([icon |-> <<PyInt(50)>>, updateTime |-> t])),
      Response(200, Json([updateTime |-> t])),
      Response(503, NotJson),
      Response(500, Json([updateTime |-> t])) }

TC8NE == <<"T", "C", "8", "N", "E">>

TC3 == <<"T", "C", "3">>

Amber == <<"A", "m", "b", "e", "r">>

TCPRE8UP == <<"T", "C", "P", "R", "E", "8", "U", "P">>

Warning(code, subtype, t) ==
    [warningStatementCode |-> code, subtype |-> subtype, updateTime |-> t]

\* the paragraphs of a warning statement
Para1 == <<"H", "o", "t">>

Para2 == <<"D", "r", "i", "n", "k">>

WithContents(warning, paragraphs) == warning @@ ("contents" :> paragraphs)

WarningsResponses(t) ==
    Failures \cup
    { Response(200, Json([details |-> <<Warning("WTCSGNL", TC8NE, t)>>])),
      Response(200, Json([details |-> <<Warning("WTCSGNL", TC3, t),
                                        Warning("WRAIN", Amber, t)>>])),
      Response(200, Json([details |->
          <<WithContents(Warning("WRAIN", Amber, t), <<Para1, Para2>>),
            WithContents([warningStatementCode |-> "WHOT", updateTime |-> t],
                         <<Para1>>)>>])),
      Response(200, Json([details |-> <<Warning("WTCSGNL", TCPRE8UP, t)>>])),
      Response(200, Json([updateTime |-> t])),
      Response(200, Json([details |-> <<[subtype |-> TC8NE, updateTime |-> t]>>])),
      Response(503, NotJson) }

(***************************************************************************)
(* The error kinds of section 7 of the specification, read off a response. *)
(***************************************************************************)
Malformed(feed, body) ==
    CASE feed = "aws" ->
           \/ ~body.has_newline
           \/ ~body.firstline.ok
           \/ \E i \in DOMAIN body.rows : "STN" \notin DOMAIN body.rows[i]
      [] feed = "forecast" ->
           \/ ~body.json
           \/ {"HourlyWeatherForecast", "DailyForecast", "LastModified"}
                 \ DOMAIN body.doc # {}
           \/ ~body.doc["LastModified"].ok
      [] feed = "other" -> ~body.json
      [] feed = "warnings" ->
           \/ ~body.json
           \/ /\ "details" \in DOMAIN body.doc
              /\ \E i \in DOMAIN body.doc["details"] :
                    "warningStatementCode" \notin DOMAIN body.doc["details"][i]

ErrorKinds(feed, resp) ==
    IF resp.net # "ok" THEN {"TransportError"}
    ELSE (IF resp.status \in 200..299 THEN {} ELSE {"HttpStatusError"}) \cup
         (IF Malformed(feed, resp.body) THEN {"ParseError"}
          ELSE IF feed = "aws" /\ \A i \in DOMAIN resp.body.rows :
                                   resp.body.rows[i]["STN"] # climate_station_id
               THEN {"NotFound"} ELSE {})

(***************************************************************************)
(* Python's str methods and int(), on sequences of characters.             *)
(***************************************************************************)
Digits == {"0", "1", "2", "3", "4", "5", "6", "7", "8", "9"}

DigitVal(c) ==
    CASE c = "0" -> 0 [] c = "1" -> 1 [] c = "2" -> 2 [] c = "3" -> 3
      [] c = "4" -> 4 [] c = "5" -> 5 [] c = "6" -> 6 [] c = "7" -> 7
      [] c = "8" -> 8 [] c = "9" -> 9

RECURSIVE DigitsValue(_)
DigitsValue(s) ==
    IF s = <<>> THEN 0
    ELSE 10 * DigitsValue(SubSeq(s, 1, Len(s) - 1)) + DigitVal(s[Len(s)])

RECURSIVE Strip(_)
Strip(s) ==
    IF s = <<>> THEN s
    ELSE IF s[1] = " " THEN Strip(Tail(s))
    ELSE IF s[Len(s)] = " " THEN Strip(SubSeq(s, 1, Len(s) - 1))
    ELSE s

startswith(s, prefix) ==
    Len(s) >= Len(prefix) /\ SubSeq(s, 1, Len(prefix)) = prefix

\* s[i:-1] of Python, i counted from 0
SliceToLast(s, i) == SubSeq(s, i + 1, Len(s) - 1)

\* int(s) for a str: surrounding whitespace and one sign are accepted
int_str(s) ==
    LET u == Strip(s)
        signed == u # <<>> /\ u[1] \in {"+", "-"}
        body == IF signed THEN Tail(u) ELSE u
    IN  IF body = <<>> \/ \E i \in DOMAIN body : body[i] \notin Digits
        THEN Raise("ValueError")
        ELSE Return(IF signed /\ u[1] = "-" THEN 0 - DigitsValue(body)
                    ELSE DigitsValue(body))

\* int(x) for an int, a str or None
int(x) ==
    CASE x.tag = "int" -> Return(x.v)
      [] x.tag = "str" -> int_str(x.s)
      [] OTHER -> Raise("TypeError")

\* the float with the decimal expansion whole.frac
PyDecimal(whole, frac) ==
    [tag |-> "float", whole |-> DigitsValue(whole), frac |-> frac]

\* float(s) for a str: surrounding whitespace is accepted, then digits with
\* at most one point and a digit on one side of it at least (signs, exponents,
\* "inf" and "nan" are not among the texts of the model)
float_str(s) ==
    LET u == Strip(s)
        points == {i \in DOMAIN u : u[i] = "."}
        point == IF points = {} THEN Len(u) + 1 ELSE CHOOSE i \in points : TRUE
        whole == SubSeq(u, 1, point - 1)
        frac == SubSeq(u, point + 1, Len(u))
    IN  IF \/ Cardinality(points) > 1
           \/ whole \o frac = <<>>
           \/ \E i \in DOMAIN u : u[i] \notin Digits \cup {"."}
        THEN Raise("ValueError")
        ELSE Return(PyDecimal(whole, frac))

\* float(x) for a str or None, x as csv.DictReader gives it
float(x) ==
    IF x = None THEN Raise("TypeError") ELSE float_str(x)

\* d[k]
getitem(d, k) == IF k \in DOMAIN d THEN Return(d[k]) ELSE Raise("KeyError")

(***************************************************************************)
(* weather.py: parse_chance_of_rain.                                       *)
(***************************************************************************)
\* parse_chance_of_rain with chance[1:-1] after the "<"
parse_chance_of_rain_from_1(chance) ==
    IF startswith(chance, <<"<">>)
    THEN LET percent == int_str(SliceToLast(chance, 1))
         IN  IF percent.tag = "raise" THEN Return(None)
             ELSE Return(PyHalf(percent.val))
    ELSE LET n == int_str(SliceToLast(chance, 0))
         IN  IF n.tag = "raise" THEN Return(None) ELSE Return(PyInt(n.val))

parse_chance_of_rain(chance) ==
    IF startswith(chance, <<"<">>)
    THEN LET percent == int_str(SliceToLast(chance, 2))
         IN  IF percent.tag = "raise" THEN Return(None)
             ELSE Return(PyHalf(percent.val))
    ELSE LET n == int_str(SliceToLast(chance, 0))
         IN  IF n.tag = "raise" THEN Return(None) ELSE Return(PyInt(n.val))

(***************************************************************************)
(* sensor.py: _parse_warning.                                              *)
(***************************************************************************)
\* the digits matched by the group of re.compile("TC(\d+)").match(subtype)
RECURSIVE LeadingDigits(_)
LeadingDigits(s) ==
    IF s = <<>> \/ s[1] \notin Digits THEN <<>>
    ELSE <<s[1]>> \o LeadingDigits(Tail(s))

_parse_warning(key, warnings) ==
    IF key = "tclevel"
    THEN IF "WTCSGNL" \in DOMAIN warnings
         THEN IF "subtype" \notin DOMAIN warnings["WTCSGNL"] THEN Raise("KeyError")
              ELSE LET subtype == warnings["WTCSGNL"]["subtype"]
                       group1 == LeadingDigits(SubSeq(subtype, 3, Len(subtype)))
                   IN  IF startswith(subtype, <<"T", "C">>)
                       THEN IF group1 = <<>> THEN Raise("AttributeError")
                            ELSE Return(PyInt(DigitsValue(group1)))
                       ELSE Return(None)
         ELSE Return(None)
    ELSE IF key \in DOMAIN warnings THEN Return(warnings[key])
    ELSE Return(None)

(***************************************************************************)
(* const.py: MAP_CONDITION; weather.py: HKOWeatherEntity.condition.        *)
(***************************************************************************)
MAP_CONDITION_get(code) ==
    CASE code = 50 -> PyStr("sunny")
      [] code \in {51, 52} -> PyStr("partlycloudy")
      [] code \in {53, 54} -> PyStr("rainy")
      [] code \in {60, 61} -> PyStr("cloudy")
      [] code \in {62, 63} -> PyStr("rainy")
      [] code = 64 -> PyStr("pouring")
      [] code = 65 -> PyStr("lightning-rainy")
      [] code \in {70, 71, 72, 73, 74, 75} -> PyStr("clear-night")
      [] code \in {701, 711, 721, 731, 741, 751} -> PyStr("cloudy")
      [] code \in {702, 712, 722, 732, 742, 752} -> PyStr("partlycloudy")
      [] code = 76 -> PyStr("cloudy")
      [] code = 77 -> PyStr("partlycloudy")
      [] code = 80 -> PyStr("windy")
      [] code \in {83, 84, 85} -> PyStr("fog")
      [] OTHER -> None

\* except (KeyError, TypeError, ValueError): return None
condition(snapshot) ==
    IF snapshot = None THEN Return(None)
    ELSE IF "icon" \notin DOMAIN snapshot[ATTR_OTHER] THEN Return(None)
    ELSE IF snapshot[ATTR_OTHER]["icon"] = <<>> THEN Raise("IndexError")
    ELSE LET icon == snapshot[ATTR_OTHER]["icon"][1]
         IN  IF int(icon).tag = "raise" THEN Return(None)
             ELSE Return(MAP_CONDITION_get(int(icon).val))

(***************************************************************************)
(* sensor.py: the sensor entities.  One station sensor, the three warning *)
(* sensors and one binary warning sensor are kept of the descriptions; an  *)
(* entity is the record of its fields.                                     *)
(***************************************************************************)
SENSOR_TYPES == {"TEMP"}

WARNING_SENSOR_TYPES == {"WTCSGNL", "tclevel", "WRAIN"}

BINARY_WARNING_SENSOR_TYPES == {"WHOT"}

\* isinstance(value, Mapping): a warning record, not None and not an int
IsMapping(value) == "tag" \notin DOMAIN value

\* sep.join(parts)
RECURSIVE join(_, _)
join(sep, parts) ==
    IF parts = <<>> THEN <<>>
    ELSE IF Len(parts) = 1 THEN parts[1]
    ELSE parts[1] \o sep \o join(sep, Tail(parts))

\* HKOWeatherSensor.__init__
HKOWeatherSensor(snapshot, key) ==
    IF snapshot = None THEN Raise("TypeError")
    ELSE LET cell == getitem(snapshot[ATTR_AWS], key)
         IN  IF cell.tag = "raise" THEN cell
             ELSE Return([_sensor_data |-> cell.val])

\* HKOWarningSensor.__init__
HKOWarningSensor(snapshot, key) ==
    IF snapshot = None THEN Raise("TypeError")
    ELSE LET parsed == _parse_warning(key, snapshot[ATTR_WARNINGS])
         IN  IF parsed.tag = "raise" THEN parsed
             ELSE Return([_sensor_data |-> parsed.val, _attrs |-> EmptyDict])

\* HKOBinaryWarningSensor.__init__
HKOBinaryWarningSensor(snapshot, key) ==
    IF snapshot = None THEN Raise("TypeError")
    ELSE LET parsed == _parse_warning(key, snapshot[ATTR_WARNINGS])
         IN  IF parsed.tag = "raise" THEN parsed
             ELSE Return([_sensor_data |-> parsed.val, _attrs |-> EmptyDict])

NewSensor(snapshot, key) ==
    CASE key \in SENSOR_TYPES -> HKOWeatherSensor(snapshot, key)
      [] key \in WARNING_SENSOR_TYPES -> HKOWarningSensor(snapshot, key)
      [] key \in BINARY_WARNING_SENSOR_TYPES -> HKOBinaryWarningSensor(snapshot, key)

\* the platform's async_setup_entry: the three lists are built, then added;
\* a constructor that raises leaves the platform without entities
sensor_async_setup_entry(snapshot) ==
    LET keys == SENSOR_TYPES \cup WARNING_SENSOR_TYPES \cup BINARY_WARNING_SENSOR_TYPES
    IN  IF \E key \in keys : NewSensor(snapshot, key).tag = "raise"
        THEN EmptyDict
        ELSE [key \in keys |-> NewSensor(snapshot, key).val]

\* HKOWeatherSensor.native_value
HKOWeatherSensor_native_value(sensor) == float(sensor._sensor_data)

\* HKOWarningSensor.native_value
HKOWarningSensor_native_value(sensor) ==
    IF sensor._sensor_data = None THEN Return(None)
    ELSE IF IsMapping(sensor._sensor_data)
    THEN IF "subtype" \in DOMAIN sensor._sensor_data
         THEN Return(sensor._sensor_data["subtype"])
         ELSE Return(PyStr("Active"))
    ELSE Return(sensor._sensor_data)

\* HKOBinaryWarningSensor.is_on
is_on(sensor) == sensor._sensor_data # None

\* extra_state_attributes of HKOWarningSensor and of HKOBinaryWarningSensor:
\* the dict it returns is self._attrs itself, with "contents" set when the
\* cached record has contents
extra_state_attributes(sensor) ==
    IF /\ sensor._sensor_data # None
       /\ IsMapping(sensor._sensor_data)
       /\ "contents" \in DOMAIN sensor._sensor_data
    THEN ("contents" :> join(<<"\n", "\n">>, sensor._sensor_data["contents"]))
            @@ sensor._attrs
    ELSE sensor._attrs

\* async_write_ha_state() of a warning sensor reads extra_state_attributes
async_write_ha_state(sensor) ==
    [sensor EXCEPT !._attrs = extra_state_attributes(sensor)]

\* _handle_coordinator_update of the three classes; when the first statement
\* raises the entity is left as it was
_handle_coordinator_update(key, sensor, snapshot) ==
    IF key \in SENSOR_TYPES
    THEN LET cell == getitem(snapshot[ATTR_AWS], key)
         IN  IF cell.tag = "raise" THEN sensor
             ELSE [sensor EXCEPT !._sensor_data = cell.val]
    ELSE LET parsed == _parse_warning(key, snapshot[ATTR_WARNINGS])
         IN  IF parsed.tag = "raise" THEN sensor
             ELSE async_write_ha_state([sensor EXCEPT !._sensor_data = parsed.val])

\* the coordinator calling the update callback of every listening entity
async_update_listeners(listeners, snapshot) ==
    [key \in DOMAIN listeners |->
        _handle_coordinator_update(key, listeners[key], snapshot)]

(***************************************************************************)
(* weather.py: what the weather entity reads from the snapshot.            *)
(***************************************************************************)
\* datetime.strptime(text + " +0800", format)
strptime(text) ==
    IF text.ok THEN Return(text.time) ELSE Raise("ValueError")

\* float(x) for a value of a JSON document
float_json(x) ==
    CASE x.tag = "int" -> Return([tag |-> "float", whole |-> x.v, frac |-> <<>>])
      [] x.tag = "float" -> Return(x)
      [] x.tag = "str" -> float_str(x.s)
      [] OTHER -> Raise("TypeError")

\* except (KeyError, TypeError, ValueError): return None
native_temperature(snapshot) ==
    IF snapshot = None THEN Return(None)
    ELSE LET cell == getitem(snapshot[ATTR_AWS], "TEMP")
         IN  IF cell.tag = "raise" \/ float(cell.val).tag = "raise"
             THEN Return(None)
             ELSE float(cell.val)

native_pressure(snapshot) ==
    IF snapshot = None THEN Return(None)
    ELSE LET cell == getitem(snapshot[ATTR_AWS], "PRESSURE")
         IN  IF cell.tag = "raise" \/ float(cell.val).tag = "raise"
             THEN Return(None)
             ELSE float(cell.val)

\* the first of the results that raised, or the list of the values
AllOf(results) ==
    IF \E i \in DOMAIN results : results[i].tag = "raise"
    THEN results[CHOOSE i \in DOMAIN results :
                    /\ results[i].tag = "raise"
                    /\ \A j \in 1..(i - 1) : results[j].tag # "raise"]
    ELSE Return([i \in DOMAIN results |-> results[i].val])

\* "x if key in entry else None", x raising or not
IfIn(entry, key, x) == IF key \in DOMAIN entry THEN x ELSE Return(None)

\* one element of the list of _get_forecast: time, temperature, condition
HourlyForecast(entry) ==
    LET hour == getitem(entry, "ForecastHour")
        code == int(entry["ForecastWeather"])
    IN  AllOf(<<IF hour.tag = "raise" THEN hour ELSE strptime(hour.val),
                IfIn(entry, "ForecastTemperature",
                     float_json(entry["ForecastTemperature"])),
                IF code.tag = "raise" THEN code
                ELSE Return(MAP_CONDITION_get(code.val))>>)

_get_forecast(snapshot) ==
    LET entries == SelectSeq(snapshot[ATTR_FORECAST],
                             LAMBDA entry : "ForecastWeather" \in DOMAIN entry)
    IN  AllOf([i \in DOMAIN entries |-> HourlyForecast(entries[i])])

\* one element of the list of async_forecast_daily: time, maximum
\* temperature, chance of rain, condition
DailyForecast(entry) ==
    LET date == getitem(entry, "ForecastDate")
        code == int(entry["ForecastDailyWeather"])
    IN  AllOf(<<IF date.tag = "raise" THEN date ELSE strptime(date.val),
                IfIn(entry, "ForecastMaximumTemperature",
                     float_json(entry["ForecastMaximumTemperature"])),
                IfIn(entry, "ForecastChanceOfRain",
                     parse_chance_of_rain(entry["ForecastChanceOfRain"])),
                IF code.tag = "raise" THEN code
                ELSE Return(MAP_CONDITION_get(code.val))>>)

async_forecast_daily(snapshot) ==
    LET entries == SelectSeq(snapshot[ATTR_DAILY_FORECAST],
                             LAMBDA entry : "ForecastDailyWeather" \in DOMAIN entry)
    IN  AllOf([i \in DOMAIN entries |-> DailyForecast(entries[i])])

(***************************************************************************)
(* The host's DataUpdateCoordinator, as far as this integration relies on  *)
(* it: a refresh cancels the one-shot timer and calls _async_update_data;  *)
(* when the call returns its value becomes coordinator.data, when it       *)
(* raises coordinator.data is left alone; the timer is armed again only    *)
(* while listeners exist; the first refresh raises ConfigEntryNotReady to  *)
(* its caller when the update failed; the listeners are called after a     *)
(* refresh that published and after the first one that failed.             *)
(***************************************************************************)
Batch(t, first, prev) ==
    [t |-> t, first |-> first, pc |-> "aws", prev |-> prev, errs |-> {},
     aws |-> None, forecast |-> None, other |-> None, gets |-> <<>>]

_async_refresh(first, prev) ==
    /\ clock < MaxCycles
    /\ clock' = clock + 1
    /\ timer' = FALSE
    /\ inflight' = inflight \cup {Batch(clock + 1, first, prev)}

\* async_setup_entry awaiting coordinator.async_refresh(), which logs a
\* failure and returns, in place of async_config_entry_first_refresh()
async_setup_entry_after_plain_refresh(success) == "refreshed"

\* __init__.py: await coordinator.async_config_entry_first_refresh(), and the
\* statements after it run only when it did not raise
async_setup_entry_after_refresh(success) ==
    IF success THEN "refreshed" ELSE "not_ready"

_async_refresh_done(b, res, feed, resp) ==
    /\ inflight' = inflight \ {b}
    /\ data' = IF res.tag = "return" THEN res.val ELSE data
    /\ last_update_success' = (res.tag = "return")
    /\ timer' = (entities # {})
    /\ setup' = IF b.first THEN async_setup_entry_after_refresh(res.tag = "return")
                ELSE setup
    /\ outcome' = [t |-> b.t, first |-> b.first, res |-> res, feed |-> feed,
                   resp |-> resp, prev |-> b.prev,
                   errs |-> b.errs \cup ErrorKinds(feed, resp),
                   gets |-> Append(b.gets, feed)]
    /\ sensors' = IF res.tag = "return" \/ last_update_success
                  THEN async_update_listeners(sensors, data')
                  ELSE sensors
    /\ UNCHANGED <<hass_data, entities, clock>>

\* _async_update_data awaiting the warnings right after the forecast
NextPc_without_other(feed) ==
    CASE feed = "aws" -> "forecast"
      [] feed = "forecast" -> "warnings"
      [] feed = "other" -> "warnings"

\* lines 103-106: the statement that follows each await
NextPc(feed) ==
    CASE feed = "aws" -> "forecast"
      [] feed = "forecast" -> "other"
      [] feed = "other" -> "warnings"

\* one await of _async_update_data: the adapter's result res for response resp
Await(b, feed, resp, res) ==
    IF res.tag = "raise"
    THEN _async_refresh_done(b, Raise(_async_update_data_except(res.exc)), feed, resp)
    ELSE IF feed = "warnings"
    THEN _async_refresh_done(b,
             Return(_async_update_data_return(b.aws, b.forecast, b.other, res.val)),
             feed, resp)
    ELSE /\ inflight' = (inflight \ {b}) \cup
                {[b EXCEPT ![feed] = res.val, !.pc = NextPc(feed),
                           !.errs = @ \cup ErrorKinds(feed, resp),
                           !.gets = Append(@, feed)]}
         /\ UNCHANGED <<setup, hass_data, entities, data, last_update_success,
                        timer, clock, outcome, sensors>>

(***************************************************************************)
(* __init__.py: async_setup_entry and async_unload_entry.                  *)
(***************************************************************************)
\* async_setup_entry starting the first refresh as a background task in
\* place of awaiting it
async_setup_entry_not_awaiting ==
    /\ setup \in {"start", "not_ready"}
    /\ setup' = "refreshed"
    /\ data' = None
    /\ last_update_success' = TRUE
    /\ outcome' = None
    /\ _async_refresh(FALSE, None)
    /\ UNCHANGED <<hass_data, entities, sensors>>
    /\ UNCHANGED helper_vars

\* the coordinator is constructed and the first refresh awaited; the host
\* calls async_setup_entry again after ConfigEntryNotReady
async_setup_entry ==
    /\ setup \in {"start", "not_ready"}
    /\ setup' = "first_refresh"
    /\ data' = None
    /\ last_update_success' = TRUE
    /\ outcome' = None
    /\ _async_refresh(TRUE, None)
    /\ UNCHANGED <<hass_data, entities, sensors>>
    /\ UNCHANGED helper_vars

\* hko_hass_data[entry.entry_id] = coordinator
store_coordinator ==
    /\ setup = "refreshed"
    /\ setup' = "stored"
    /\ hass_data' = hass_data \cup {ENTRY_ID}
    /\ UNCHANGED <<entities, data, last_update_success, timer, inflight, clock,
                   outcome, sensors>>
    /\ UNCHANGED helper_vars

\* async_forward_entry_setups: each platform looks the coordinator up in
\* hass.data and adds its entities; the sensors read coordinator.data in
\* __init__; the first listener arms the timer
async_forward_entry_setups ==
    /\ setup = "stored"
    /\ setup' = "loaded"
    /\ sensors' = IF ENTRY_ID \notin hass_data THEN EmptyDict
                  ELSE sensor_async_setup_entry(data)
    /\ entities' = IF ENTRY_ID \notin hass_data THEN {}
                   ELSE {"weather"} \cup DOMAIN sensors'
    /\ timer' = (entities' # {})
    /\ UNCHANGED <<hass_data, data, last_update_success, inflight, clock, outcome>>
    /\ UNCHANGED helper_vars

async_unload_entry ==
    /\ setup = "loaded"
    /\ setup' = "unloaded"
    /\ entities' = {}
    /\ sensors' = EmptyDict
    /\ timer' = FALSE
    /\ hass_data' = hass_data \ {ENTRY_ID}
    /\ UNCHANGED <<data, last_update_success, inflight, clock, outcome>>
    /\ UNCHANGED helper_vars

(***************************************************************************)
(* The periodic refresh (update_interval = MIN_TIME_BETWEEN_UPDATES).      *)
(***************************************************************************)
_handle_refresh_interval ==
    /\ timer
    /\ _async_refresh(FALSE, data)
    /\ UNCHANGED <<setup, hass_data, entities, data, last_update_success, outcome,
                   sensors>>
    /\ UNCHANGED helper_vars

(***************************************************************************)
(* hko_data.py, _async_update_data: the four awaits, in order.             *)
(***************************************************************************)
await_station_data ==
    \E b \in inflight : \E resp \in StationResponses(b.t) :
        /\ b.pc = "aws"
        /\ Await(b, "aws", resp,
                 async_with_timeout(resp, _async_get_station_data(resp)))
        /\ UNCHANGED helper_vars

await_forecast_data ==
    \E b \in inflight : \E resp \in ForecastResponses(b.t) :
        /\ b.pc = "forecast"
        /\ Await(b, "forecast", resp,
                 async_with_timeout(resp, _async_get_forecast_data(resp)))
        /\ UNCHANGED helper_vars

await_other_data ==
    \E b \in inflight : \E resp \in OtherResponses(b.t) :
        /\ b.pc = "other"
        /\ Await(b, "other", resp,
                 async_with_timeout(resp, _async_get_other_data(resp)))
        /\ UNCHANGED helper_vars

await_warnings ==
    \E b \in inflight : \E resp \in WarningsResponses(b.t) :
        /\ b.pc = "warnings"
        /\ Await(b, "warnings", resp,
                 async_with_timeout(resp, _async_get_warnings(resp)))
        /\ UNCHANGED helper_vars

(***************************************************************************)
(* The specification of the integration.                                   *)
(***************************************************************************)
CoordinatorInit ==
    /\ setup = "start"
    /\ hass_data = {}
    /\ entities = {}
    /\ data = None
    /\ last_update_success = TRUE
    /\ timer = FALSE
    /\ inflight = {}
    /\ clock = 0
    /\ outcome = None
    /\ sensors = EmptyDict

Init ==
    /\ CoordinatorInit
    /\ fn = "none"
    /\ fn_in = None
    /\ fn_out = None

Next ==
    \/ async_setup_entry
    \/ store_coordinator
    \/ async_forward_entry_setups
    \/ async_unload_entry
    \/ _handle_refresh_interval
    \/ await_station_data
    \/ await_forecast_data
    \/ await_other_data
    \/ await_warnings

Spec == Init /\ [][Next]_vars

(***************************************************************************)
(* The helpers and the station adapter applied on their own, to every      *)
(* input of a bounded set.                                                 *)
(***************************************************************************)
Strings(chars, n) == UNION {[1..k -> chars] : k \in 0..n}

ChanceInputs ==
    Strings({"<", " ", "1", "0", "%", "N"}, MaxChance) \cup
    {<<"3", "0", "%">>, <<"N", "/", "A">>}

SubtypeInputs ==
    Strings({"T", "C", "8", "1", "N"}, MaxSubtype) \cup {TC8NE, Amber, TCPRE8UP}

WarningSets ==
    LET signals == {EmptyDict, "WTCSGNL" :> [warningStatementCode |-> "WTCSGNL"]} \cup
                   {"WTCSGNL" :> [warningStatementCode |-> "WTCSGNL", subtype |-> sub] :
                      sub \in SubtypeInputs}
        others == {EmptyDict,
                   "WRAIN" :> [warningStatementCode |-> "WRAIN", subtype |-> Amber]}
    IN  {sig @@ oth : sig \in signals, oth \in others}

WarningInputs == [key : {"tclevel", "WRAIN"}, warnings : WarningSets]

CodeInputs == {PyInt(code) : code \in 0..MaxCode}

IconInputs ==
    CodeInputs \cup {None} \cup
    {PyStr(str) : str \in {<<>>, <<"5", "0">>, <<"x">>, <<" ", "6", "4">>}}

ConditionInputs ==
    {None} \cup
    {ATTR_OTHER :> doc :
       doc \in {[updateTime |-> 0], [icon |-> <<>>]} \cup
               {[icon |-> <<first>>] : first \in IconInputs} \cup
               {[icon |-> <<PyInt(50), PyInt(64)>>]}}

StationInputs ==
    LET rowsets == UNION {[1..k -> {Row(stn, temp) : stn \in {"HKO", "KP", "TY1"},
                                                     temp \in {Temp253, Temp241}}] :
                            k \in 0..MaxRows}
    IN  {Response(200, StationText(ok, 1, rows)) : ok \in BOOLEAN, rows \in rowsets}
        \cup {Response(200, StationText(TRUE, 1, <<Row("HKO", Temp253), [TEMP |-> Temp241]>>)),
              Response(404, ErrorPage)}

HelpersInit ==
    /\ CoordinatorInit
    /\ fn_out = None
    /\ \/ fn = "parse_chance_of_rain" /\ fn_in \in ChanceInputs
       \/ fn = "_parse_warning" /\ fn_in \in WarningInputs
       \/ fn = "MAP_CONDITION" /\ fn_in \in CodeInputs
       \/ fn = "condition" /\ fn_in \in ConditionInputs
       \/ fn = "_async_get_station_data" /\ fn_in \in StationInputs

Call(name, result) ==
    /\ fn = name
    /\ fn_out = None
    /\ fn_out' = result
    /\ UNCHANGED <<fn, fn_in>>
    /\ UNCHANGED coordinator_vars

call_parse_chance_of_rain ==
    Call("parse_chance_of_rain", parse_chance_of_rain(fn_in))

call_parse_warning ==
    Call("_parse_warning", _parse_warning(fn_in.key, fn_in.warnings))

call_MAP_CONDITION ==
    Call("MAP_CONDITION", Return(MAP_CONDITION_get(fn_in.v)))

call_condition ==
    Call("condition", condition(fn_in))

call_async_get_station_data ==
    Call("_async_get_station_data", _async_get_station_data(fn_in))

HelpersNext ==
    \/ call_parse_chance_of_rain
    \/ call_parse_warning
    \/ call_MAP_CONDITION
    \/ call_condition
    \/ call_async_get_station_data

SpecHelpers == HelpersInit /\ [][HelpersNext]_vars

Called(name) == fn = name /\ fn_out # None

(***************************************************************************)
(* Properties of the refresh cycle and of the setup.                       *)
(***************************************************************************)
SnapshotKeys == {ATTR_AWS, ATTR_FORECAST, ATTR_DAILY_FORECAST,
                 ATTR_FORECAST_LAST_UPDATED, ATTR_OTHER, ATTR_WARNINGS}

\* every field of snapshot s was fetched at time t
FromCycle(s, t) ==
    /\ s[ATTR_AWS][ATTR_AWS_LAST_UPDATED] = t
    /\ s[ATTR_FORECAST] = Hourly(t)
    /\ s[ATTR_DAILY_FORECAST] = Daily(t)
    /\ s[ATTR_FORECAST_LAST_UPDATED] = t
    /\ s[ATTR_OTHER]["updateTime"] = t
    /\ \A c \in DOMAIN s[ATTR_WARNINGS] : s[ATTR_WARNINGS][c]["updateTime"] = t

Finished == outcome # None

\* C1 (as claimed): once a snapshot has been published, a refresh cycle in
\* which a fetch met any error kind (transport error, non-2xx status, parse
\* error, station not found) is aborted and leaves the snapshot as it was
\* before the cycle.
C1_AnyFetchErrorAbortsTheCycle ==
    (Finished /\ outcome.prev # None /\ outcome.errs # {}) =>
        /\ outcome.res.tag = "raise"
        /\ data = outcome.prev

\* C2: the published snapshot is absent or has all six keys, and all six
\* values were fetched in one and the same refresh cycle.
C2_SnapshotIsWholeAndOfOneCycle ==
    data # None =>
        /\ DOMAIN data = SnapshotKeys
        /\ \E t \in 1..clock : FromCycle(data, t)

\* a second cycle has replaced a snapshot that carried warnings
C2_Witness ==
    /\ Finished /\ outcome.res.tag = "return" /\ outcome.prev # None
    /\ data = outcome.res.val /\ data # outcome.prev
    /\ DOMAIN data[ATTR_WARNINGS] # {}

C4_TimeoutEndsAsUpdateFailed ==
    (Finished /\ outcome.resp.net = "timeout") =>
        /\ outcome.res = Raise("UpdateFailed")
        /\ data = outcome.prev

\* C5: a failed first refresh ends the setup: nothing is stored in hass.data,
\* no platform is set up, no periodic refresh is armed; and consumer
\* entities exist only with the coordinator stored.
C5_FailedFirstRefreshAbortsSetup ==
    /\ (Finished /\ outcome.first /\ outcome.res.tag = "raise") =>
           setup = "not_ready"
    /\ setup \in {"first_refresh", "not_ready"} =>
           hass_data = {} /\ entities = {} /\ ~timer
    /\ setup = "not_ready" => inflight = {}
    /\ entities # {} => ENTRY_ID \in hass_data

\* the first refresh has failed on a missing station record
C5_Witness ==
    /\ setup = "not_ready"
    /\ Finished /\ outcome.first /\ outcome.res = Raise("KeyError")

NoDetails(resp) ==
    resp.net = "ok" /\ resp.body.json /\ "details" \notin DOMAIN resp.body.doc

\* C6: a refresh whose warnings response has no details key (the other
\* three fetches having succeeded) publishes a snapshot with an empty
\* warnings mapping and the newly fetched other fields.
C6_MissingDetailsGivesEmptyWarnings ==
    (Finished /\ outcome.feed = "warnings" /\ NoDetails(outcome.resp)) =>
        /\ outcome.res.tag = "return"
        /\ data = outcome.res.val
        /\ data[ATTR_WARNINGS] = EmptyDict
        /\ FromCycle(data, outcome.t)

\* such a refresh has replaced a snapshot that carried warnings
C6_Witness ==
    /\ Finished /\ outcome.feed = "warnings" /\ NoDetails(outcome.resp)
    /\ outcome.prev # None
    /\ DOMAIN outcome.prev[ATTR_WARNINGS] # {}
    /\ data[ATTR_WARNINGS] = EmptyDict

(***************************************************************************)
(* Properties of the station adapter and of the derivation helpers.        *)
(***************************************************************************)
ValidTable(text) ==
    /\ text.has_newline
    /\ text.firstline.ok
    /\ \A i \in DOMAIN text.rows : "STN" \in DOMAIN text.rows[i]

\* C7: on a valid station table the adapter returns the row whose STN is
\* the configured station (the last such row, with the header's time added
\* and no column changed), and raises KeyError when no row has that STN.
C7_StationRowSelectedBySTN ==
    (Called("_async_get_station_data") /\ ValidTable(fn_in.body)) =>
        LET rows == fn_in.body.rows
            hits == {i \in DOMAIN rows : rows[i]["STN"] = climate_station_id}
        IN  IF hits = {} THEN fn_out = Raise("KeyError")
            ELSE /\ fn_out.tag = "return"
                 /\ \E i \in hits :
                      /\ \A j \in hits : j <= i
                      /\ DOMAIN fn_out.val = DOMAIN rows[i] \cup {ATTR_AWS_LAST_UPDATED}
                      /\ \A col \in DOMAIN rows[i] : fn_out.val[col] = rows[i][col]

\* the configured station's row is the second of three
C7_Witness ==
    /\ Called("_async_get_station_data") /\ ValidTable(fn_in.body)
    /\ Len(fn_in.body.rows) = 3
    /\ fn_in.body.rows[1]["STN"] = "KP"
    /\ fn_in.body.rows[2] = Row(climate_station_id, Temp253)
    /\ fn_in.body.rows[3] = Row("TY1", Temp241)
    /\ fn_out.tag = "return" /\ fn_out.val["TEMP"] = Temp253

IsDigits(str) == str # <<>> /\ \A i \in DOMAIN str : str[i] \in Digits

\* str is an integer literal: digits, after an optional sign, between spaces
IsNumber(str) ==
    \E i, j \in DOMAIN str :
        /\ i <= j
        /\ \A k \in DOMAIN str : (k < i \/ k > j) => str[k] = " "
        /\ \/ IsDigits(SubSeq(str, i, j))
           \/ str[i] \in {"+", "-"} /\ i < j /\ IsDigits(SubSeq(str, i + 1, j))

IsDigit(c) == c \in Digits

NumberValue(str) ==
    IF \E i \in DOMAIN str : str[i] = "-"
    THEN 0 - DigitsValue(SelectSeq(str, IsDigit))
    ELSE DigitsValue(SelectSeq(str, IsDigit))

\* the value C8 claims: N/2 for "<N%", N for "N%", absent otherwise
ClaimedChance(chance) ==
    LET n == Len(chance)
    IN  IF n >= 3 /\ chance[1] = "<" /\ chance[n] = "%"
             /\ IsDigits(SubSeq(chance, 2, n - 1))
        THEN PyHalf(DigitsValue(SubSeq(chance, 2, n - 1)))
        ELSE IF n >= 2 /\ chance[n] = "%" /\ IsDigits(SubSeq(chance, 1, n - 1))
        THEN PyInt(DigitsValue(SubSeq(chance, 1, n - 1)))
        ELSE None

\* C8 (as claimed): the parser returns N/2 for "<N%", N for "N%" and absent
\* for any other shape, never raising.
C8_ChanceAsClaimed ==
    Called("parse_chance_of_rain") => fn_out = Return(ClaimedChance(fn_in))

\* C8 (amended): the parser never raises; it drops the last character, and
\* the first two when the input starts with "<"; it returns absent unless
\* the rest is an integer literal N, and then N/2 in the "<" case and N
\* otherwise: "< 10%" gives 5, "<10%" gives 0, "30%" gives 30, "N/A" absent.
C8_ChanceOfTheRest ==
    Called("parse_chance_of_rain") =>
        LET chance == fn_in
            n == Len(chance)
            less == n >= 1 /\ chance[1] = "<"
            rest == IF less THEN SubSeq(chance, 3, n - 1) ELSE SubSeq(chance, 1, n - 1)
        IN  /\ fn_out = Return(IF ~IsNumber(rest) THEN None
                               ELSE IF less THEN PyHalf(NumberValue(rest))
                               ELSE PyInt(NumberValue(rest)))
            /\ chance = <<"<", " ", "1", "0", "%">> => fn_out = Return(PyHalf(10))
            /\ chance = <<"<", "1", "0", "%">> => fn_out = Return(PyHalf(0))
            /\ chance = <<"3", "0", "%">> => fn_out = Return(PyInt(30))
            /\ chance = <<"N", "/", "A">> => fn_out = Return(None)

\* "< 10%" has been parsed to 10/2
C8_Witness ==
    /\ Called("parse_chance_of_rain")
    /\ fn_in = <<"<", " ", "1", "0", "%">>
    /\ fn_out = Return(PyHalf(10))

\* the level C9 claims: the digits after "TC", absent in every other case
ClaimedLevel(warnings) ==
    IF /\ "WTCSGNL" \in DOMAIN warnings
       /\ "subtype" \in DOMAIN warnings["WTCSGNL"]
       /\ startswith(warnings["WTCSGNL"]["subtype"], <<"T", "C">>)
       /\ LeadingDigits(SubSeq(warnings["WTCSGNL"]["subtype"], 3,
                               Len(warnings["WTCSGNL"]["subtype"]))) # <<>>
    THEN PyInt(DigitsValue(LeadingDigits(SubSeq(warnings["WTCSGNL"]["subtype"], 3,
                               Len(warnings["WTCSGNL"]["subtype"])))))
    ELSE None

\* C9 (as claimed): the tropical-cyclone level is the integer after "TC" of
\* the WTCSGNL subtype and absent in every other case; no case raises.
C9_LevelAsClaimed ==
    (Called("_parse_warning") /\ fn_in.key = "tclevel") =>
        fn_out = Return(ClaimedLevel(fn_in.warnings))

DocumentedCodes ==
    (50..54) \cup (60..65) \cup (70..77) \cup {80} \cup (83..85) \cup
    {701, 702, 711, 712, 721, 722, 731, 732, 741, 742, 751, 752}

Conditions ==
    {PyStr(name) : name \in {"sunny", "partlycloudy", "rainy", "cloudy", "pouring",
                             "lightning-rainy", "clear-night", "windy", "fog"}}

Numeric(first) ==
    first.tag = "int" \/ (first.tag = "str" /\ IsNumber(first.s))

\* C10 (as claimed): every documented code maps to one of the nine
\* conditions and every other code to absent; the current condition follows
\* the mapping of the first icon element and is absent, without error, when
\* the icon key is missing, empty or non-numeric.
C10_ConditionAsClaimed ==
    /\ Called("MAP_CONDITION") =>
          /\ fn_out.tag = "return"
          /\ fn_in.v \in DocumentedCodes => fn_out.val \in Conditions
          /\ fn_in.v \notin DocumentedCodes => fn_out.val = None
    /\ (Called("condition") /\ fn_in # None) =>
          LET other == fn_in[ATTR_OTHER]
          IN  IF "icon" \notin DOMAIN other THEN fn_out = Return(None)
              ELSE IF other["icon"] = <<>> THEN fn_out = Return(None)
              ELSE IF ~Numeric(other["icon"][1]) THEN fn_out = Return(None)
              ELSE fn_out = Return(MAP_CONDITION_get(
                       IF other["icon"][1].tag = "int" THEN other["icon"][1].v
                       ELSE NumberValue(other["icon"][1].s)))

(***************************************************************************)
(* C12.  gets is the list of the GETs one run of _async_update_data has    *)
(* issued so far, in the order it issued them.                             *)
(***************************************************************************)
Order == <<"aws", "forecast", "other", "warnings">>

IsPrefix(s, full) == Len(s) <= Len(full) /\ s = SubSeq(full, 1, Len(s))

\* C12: within one refresh cycle the fetches are issued in the order station
\* observations, forecast, live conditions, warnings, each at most once; a
\* fetch is issued only after every earlier one has returned a value; the fetch
\* that raised or ran out of time is the last one of its cycle, and that cycle
\* publishes nothing; a cycle that publishes has issued all four
C12_FetchesInOrderAndFailFast ==
    /\ \A b \in inflight :
          /\ IsPrefix(b.gets, Order)
          /\ Len(b.gets) < Len(Order)
          /\ b.pc = Order[Len(b.gets) + 1]
          /\ \A i \in 1..Len(b.gets) : b[b.gets[i]] # None
          /\ \A f \in {"aws", "forecast", "other"} :
                b[f] # None => \E i \in 1..Len(b.gets) : b.gets[i] = f
    /\ Finished =>
          /\ IsPrefix(outcome.gets, Order)
          /\ outcome.gets # <<>>
          /\ outcome.gets[Len(outcome.gets)] = outcome.feed
          /\ outcome.res.tag = "return" => outcome.gets = Order
          /\ outcome.res.tag = "raise" => data = outcome.prev

\* a cycle whose second fetch ran out of time: the live conditions and the
\* warnings were never asked for, and the earlier snapshot is still published
C12_Witness ==
    /\ Finished
    /\ outcome.res.tag = "raise"
    /\ outcome.gets = <<"aws", "forecast">>
    /\ outcome.resp = NoResponse("timeout")
    /\ outcome.prev # None
    /\ data = outcome.prev

(***************************************************************************)
(* C11.  What the consumers read from a published snapshot.                *)
(***************************************************************************)
\* C11: for every published snapshot, a derived field read through a consumer
\* (the station sensor's value, the weather entity's temperature, pressure
\* and condition, the hourly and the daily forecast, the warning sensors'
\* values) is returned, never raised, and it is absent when the raw value is
\* missing or cannot be parsed
C11_ReadsNeverRaise ==
    data # None =>
      /\ \A key \in DOMAIN sensors \cap SENSOR_TYPES :
            LET value == HKOWeatherSensor_native_value(sensors[key])
            IN  /\ value.tag = "return"
                /\ float(data[ATTR_AWS][key]).tag = "raise" => value.val = None
      /\ \A key \in DOMAIN sensors \cap WARNING_SENSOR_TYPES :
            HKOWarningSensor_native_value(sensors[key]).tag = "return"
      /\ native_temperature(data).tag = "return"
      /\ float(data[ATTR_AWS]["TEMP"]).tag = "raise" =>
            native_temperature(data).val = None
      /\ native_pressure(data) = Return(None)
      /\ condition(data).tag = "return"
      /\ _get_forecast(data).tag = "return"
      /\ async_forecast_daily(data).tag = "return"

(***************************************************************************)
(* C13.  The values the sensors cache.                                     *)
(***************************************************************************)
\* the value C13 derives for a sensor from a snapshot: the station field by
\* key, the level of C9 for tclevel, the warning record by statement code and
\* None when the code is not in the warnings
Derived(key, snapshot) ==
    CASE key \in SENSOR_TYPES -> snapshot[ATTR_AWS][key]
      [] key = "tclevel" -> ClaimedLevel(snapshot[ATTR_WARNINGS])
      [] OTHER -> IF key \in DOMAIN snapshot[ATTR_WARNINGS]
                  THEN snapshot[ATTR_WARNINGS][key]
                  ELSE None

\* C13: once the listeners have been called for the last refresh, published or
\* failed, the value every station sensor and warning sensor caches is the one
\* derived from the current snapshot; a failed refresh, which leaves the
\* snapshot alone, therefore changes no cached value
C13_CachedIsDerivedFromSnapshot ==
    \A key \in DOMAIN sensors :
        sensors[key]._sensor_data = Derived(key, data)

(***************************************************************************)
(* C14.  The extra attributes of the warning sensors.                      *)
(***************************************************************************)
\* C14: the extra attributes a warning sensor or binary warning sensor reports
\* hold "contents" only if the record of its statement code in the current
\* snapshot has contents, and then the paragraphs of that record joined by
\* blank lines; nothing of an earlier snapshot is reported
C14_ContentsOnlyOfCurrentRecord ==
    \A key \in DOMAIN sensors \ SENSOR_TYPES :
        LET reported == extra_state_attributes(sensors[key])
            warnings == data[ATTR_WARNINGS]
        IN  (reported # EmptyDict /\ "contents" \in DOMAIN reported) =>
              /\ key \in DOMAIN warnings
              /\ "contents" \in DOMAIN warnings[key]
              /\ reported["contents"] =
                    join(<<"\n", "\n">>, warnings[key]["contents"])

====
